---- MODULE Spec2Model ----
(***************************************************************************)
(* Session / token lifecycle of roble_client.py: AuthenticationClient      *)
(* (login, logout, refresh) and ProductClient (_request and the CRUD       *)
(* methods built on it), sharing one requests.Session.                     *)
(*                                                                         *)
(* Every network call of the code takes its answer from the remote side:   *)
(* the answers are the inputs of the actions.  An Optional[str] of the     *)
(* code is a sequence of length at most one: None is <<>>, the string t    *)
(* is <<t>>.                                                               *)
(***************************************************************************)
EXTENDS Integers, Sequences, FiniteSets, TLC

\* Number of distinct access tokens the remote side issues.
NTokens == 2

\* Largest number of records the read endpoint lists.
MaxProducts == 2

\* Largest n given to add_random_products.
MaxCount == 2

None == <<>>
Some(x) == <<x>>

\* Python truthiness of an Optional[str]: None and "" are falsy.
Falsy(x) == x = None \/ x = Some("")

\* str() as applied by an f-string to an Optional[str].
PyStr(x) == IF x = None THEN "None" ELSE x[1]

\* f'Bearer {self.access_token}'
Bearer(tok) == "Bearer " \o PyStr(tok)

AccessTokens == {"A" \o ToString(i) : i \in 1..NTokens}
RefreshTokens == {"R1", "R2"}

-----------------------------------------------------------------------------
(* Answers of the remote side.                                             *)

\* The call did not complete: session.request raises (ConnectionError, Timeout).
TransportFailure ==
    [kind |-> "transport", status |-> 0, json |-> FALSE,
     accessToken |-> None, refreshToken |-> None, records |-> <<>>]

Http(status, json, at, rt) ==
    [kind |-> "http", status |-> status, json |-> json,
     accessToken |-> at, refreshToken |-> rt, records |-> <<>>]

\* JSON object bodies: data.get('accessToken') and data.get('refreshToken').
JsonBodies ==
    { Http(200, TRUE, at, rt) :
        at \in {None, Some("")} \cup {Some(t) : t \in AccessTokens},
        rt \in {None} \cup {Some(t) : t \in RefreshTokens} }

\* Answers of the identity endpoints (/login, /logout, /refresh-token).
AuthResponses ==
    JsonBodies
    \cup { Http(200, FALSE, None, None),
           Http(201, TRUE, Some("A1"), None),
           Http(204, FALSE, None, None),
           Http(304, FALSE, None, None),
           Http(401, FALSE, None, None),
           Http(500, FALSE, None, None),
           TransportFailure }

\* Answers of the data endpoints (/database/{contract}/...).
ResourceResponses ==
    { Http(200, TRUE, None, None),
      Http(200, FALSE, None, None),
      Http(401, FALSE, None, None),
      Http(404, FALSE, None, None),
      Http(500, FALSE, None, None),
      TransportFailure }

\* The '_id' of a listed record, p.get('_id'): None when the record has none.
ListedIds == {None, Some("p1"), Some("p2")}

SeqsUpTo(S, n) == UNION {[1..k -> S] : k \in 0..n}

\* Answers of the read endpoint: also a JSON list of up to MaxProducts records.
ListResponses ==
    ResourceResponses
    \cup { [Http(200, TRUE, None, None) EXCEPT !.records = l] :
             l \in SeqsUpTo(ListedIds, MaxProducts) }

\* Response.raise_for_status(): raises HTTPError for a 4xx or 5xx status.
RaisesHTTPError(r) == r.status >= 400 /\ r.status < 600

-----------------------------------------------------------------------------
(* The state.                                                              *)

VARIABLES
    access_token,    \* AuthenticationClient.access_token
    refresh_token,   \* AuthenticationClient.refresh_token
    Authorization,   \* session.headers['Authorization'], None when absent
    authEvent,       \* history: the latest login/refresh/logout that succeeded
    last,            \* history: the operation just performed, as observed
    running,         \* delete_all_products / add_random_products: its locals
                     \* while it runs, and what it did once it has ended
    callers          \* callers sharing the client: where each one stands
                     \* inside ProductClient._request

vars == <<access_token, refresh_token, Authorization, authEvent, last, running,
          callers>>

\* The credential state together with the history of one operation.
Client(at, rt, hdr, ev) ==
    [access_token |-> at, refresh_token |-> rt, Authorization |-> hdr,
     ev |-> ev, sent |-> <<>>, refreshCalls |-> 0, refreshRet |-> "none"]

Creds == <<access_token, refresh_token, Authorization>>

NoEvent == [kind |-> "init", token |-> None, refreshFailed |-> FALSE]

NoOperation ==
    [op |-> "init", ret |-> "none", resp |-> TransportFailure, sent |-> <<>>,
     refreshCalls |-> 0, refreshRet |-> "none"]

\* session.request(method, url, **kwargs) answered by r: the request goes out
\* with the session's headers as they are at that moment.
Request(c, method, url, body, r) ==
    [c EXCEPT !.sent = Append(@, [method |-> method, url |-> url, body |-> body,
                                  auth |-> c.Authorization, resp |-> r,
                                  ev |-> c.ev])]

-----------------------------------------------------------------------------
(* AuthenticationClient.  Each operator takes the client and the answer of  *)
(* the remote side and gives the client afterwards and what the method      *)
(* returned ("True", "False") or raised ("ConnectionError", "ValueError").  *)

Succeeded(c, kind, tok) ==
    [c EXCEPT !.ev = [kind |-> kind, token |-> tok,
                      refreshFailed |-> IF kind = "refresh" THEN @.refreshFailed
                                        ELSE FALSE]]

\* login as it would be if it set the header only when none is present
\* (headers.setdefault in place of headers.update).
login_setdefault_header(c, r) ==
    LET c1 == Request(c, "POST", "/login", "credentials", r) IN
    IF r.kind = "transport" THEN [c |-> c1, ret |-> "ConnectionError"]
    ELSE IF RaisesHTTPError(r) THEN [c |-> c1, ret |-> "False"]
    ELSE IF ~r.json THEN [c |-> c1, ret |-> "ValueError"]
    ELSE [c |-> Succeeded([c1 EXCEPT !.access_token = r.accessToken,
                                     !.refresh_token = r.refreshToken,
                                     !.Authorization =
                                         IF @ = None THEN Some(Bearer(r.accessToken))
                                         ELSE @],
                          "login", r.accessToken),
          ret |-> "True"]

\* login as it would be if it dropped the held tokens before returning False.
login_clears_on_failure(c, r) ==
    LET c1 == Request(c, "POST", "/login", "credentials", r) IN
    IF r.kind = "transport" THEN [c |-> c1, ret |-> "ConnectionError"]
    ELSE IF RaisesHTTPError(r)
    THEN [c |-> [c1 EXCEPT !.access_token = None, !.refresh_token = None,
                           !.Authorization = None],
          ret |-> "False"]
    ELSE IF ~r.json THEN [c |-> c1, ret |-> "ValueError"]
    ELSE [c |-> Succeeded([c1 EXCEPT !.access_token = r.accessToken,
                                     !.refresh_token = r.refreshToken,
                                     !.Authorization = Some(Bearer(r.accessToken))],
                          "login", r.accessToken),
          ret |-> "True"]

login(c, r) ==
    LET c1 == Request(c, "POST", "/login", "credentials", r) IN
    IF r.kind = "transport" THEN [c |-> c1, ret |-> "ConnectionError"]
    ELSE IF RaisesHTTPError(r) THEN [c |-> c1, ret |-> "False"]
    ELSE IF ~r.json THEN [c |-> c1, ret |-> "ValueError"]
    ELSE [c |-> Succeeded([c1 EXCEPT !.access_token = r.accessToken,
                                     !.refresh_token = r.refreshToken,
                                     !.Authorization = Some(Bearer(r.accessToken))],
                          "login", r.accessToken),
          ret |-> "True"]

\* logout as it would be if it forgot to pop the Authorization header.
logout_keeps_header(c, r) ==
    LET c1 == Request(c, "POST", "/logout", "", r) IN
    IF r.kind = "transport" THEN [c |-> c1, ret |-> "ConnectionError"]
    ELSE IF RaisesHTTPError(r) THEN [c |-> c1, ret |-> "False"]
    ELSE [c |-> Succeeded([c1 EXCEPT !.access_token = None,
                                     !.refresh_token = None],
                          "logout", None),
          ret |-> "True"]

\* logout as it would be if it cleared the session whatever the answer.
logout_clears_on_failure(c, r) ==
    LET c1 == Request(c, "POST", "/logout", "", r) IN
    IF r.kind = "transport" THEN [c |-> c1, ret |-> "ConnectionError"]
    ELSE IF RaisesHTTPError(r)
    THEN [c |-> [c1 EXCEPT !.Authorization = None, !.access_token = None,
                           !.refresh_token = None],
          ret |-> "False"]
    ELSE [c |-> Succeeded([c1 EXCEPT !.Authorization = None,
                                     !.access_token = None,
                                     !.refresh_token = None],
                          "logout", None),
          ret |-> "True"]

logout(c, r) ==
    LET c1 == Request(c, "POST", "/logout", "", r) IN
    IF r.kind = "transport" THEN [c |-> c1, ret |-> "ConnectionError"]
    ELSE IF RaisesHTTPError(r) THEN [c |-> c1, ret |-> "False"]
    ELSE [c |-> Succeeded([c1 EXCEPT !.Authorization = None,
                                     !.access_token = None,
                                     !.refresh_token = None],
                          "logout", None),
          ret |-> "True"]

RefreshReturned(c, ret) ==
    [c EXCEPT !.refreshRet = ret,
              !.ev.refreshFailed = IF ret = "True" THEN @ ELSE TRUE]

\* refresh as it would be if it stored the token without updating the
\* session's header.
refresh_keeps_header(c, r) ==
    LET c0 == [c EXCEPT !.refreshCalls = @ + 1] IN
    IF Falsy(c0.refresh_token) THEN [c |-> RefreshReturned(c0, "False"), ret |-> "False"]
    ELSE
    LET c1 == Request(c0, "POST", "/refresh-token",
                      <<"refreshToken", c0.refresh_token>>, r) IN
    IF r.kind = "transport"
    THEN [c |-> RefreshReturned(c1, "ConnectionError"), ret |-> "ConnectionError"]
    ELSE IF r.status \notin {200, 201}
    THEN [c |-> RefreshReturned(c1, "False"), ret |-> "False"]
    ELSE IF ~r.json
    THEN [c |-> RefreshReturned(c1, "False"), ret |-> "False"]
    ELSE
    LET c2 == [c1 EXCEPT !.access_token = r.accessToken] IN
    IF Falsy(c2.access_token)
    THEN [c |-> RefreshReturned(c2, "False"), ret |-> "False"]
    ELSE [c |-> RefreshReturned(Succeeded(c2, "refresh", r.accessToken), "True"),
          ret |-> "True"]

\* refresh as it would be if it also stored the refreshToken of the body, as
\* login does.
refresh_stores_refresh_token(c, r) ==
    LET c0 == [c EXCEPT !.refreshCalls = @ + 1] IN
    IF Falsy(c0.refresh_token) THEN [c |-> RefreshReturned(c0, "False"), ret |-> "False"]
    ELSE
    LET c1 == Request(c0, "POST", "/refresh-token",
                      <<"refreshToken", c0.refresh_token>>, r) IN
    IF r.kind = "transport"
    THEN [c |-> RefreshReturned(c1, "ConnectionError"), ret |-> "ConnectionError"]
    ELSE IF r.status \notin {200, 201}
    THEN [c |-> RefreshReturned(c1, "False"), ret |-> "False"]
    ELSE IF ~r.json
    THEN [c |-> RefreshReturned(c1, "False"), ret |-> "False"]
    ELSE
    LET c2 == [c1 EXCEPT !.access_token = r.accessToken,
                         !.refresh_token = r.refreshToken] IN
    IF Falsy(c2.access_token)
    THEN [c |-> RefreshReturned(c2, "False"), ret |-> "False"]
    ELSE [c |-> RefreshReturned(
                    Succeeded([c2 EXCEPT !.Authorization = Some(Bearer(c2.access_token))],
                              "refresh", r.accessToken),
                    "True"),
          ret |-> "True"]

\* refresh as it would be without the test of self.refresh_token.
refresh_without_guard(c, r) ==
    LET c0 == [c EXCEPT !.refreshCalls = @ + 1]
        c1 == Request(c0, "POST", "/refresh-token",
                      <<"refreshToken", c0.refresh_token>>, r) IN
    IF r.kind = "transport"
    THEN [c |-> RefreshReturned(c1, "ConnectionError"), ret |-> "ConnectionError"]
    ELSE IF r.status \notin {200, 201}
    THEN [c |-> RefreshReturned(c1, "False"), ret |-> "False"]
    ELSE IF ~r.json
    THEN [c |-> RefreshReturned(c1, "False"), ret |-> "False"]
    ELSE
    LET c2 == [c1 EXCEPT !.access_token = r.accessToken] IN
    IF Falsy(c2.access_token)
    THEN [c |-> RefreshReturned(c2, "False"), ret |-> "False"]
    ELSE [c |-> RefreshReturned(
                    Succeeded([c2 EXCEPT !.Authorization = Some(Bearer(c2.access_token))],
                              "refresh", r.accessToken),
                    "True"),
          ret |-> "True"]

refresh(c, r) ==
    LET c0 == [c EXCEPT !.refreshCalls = @ + 1] IN
    IF Falsy(c0.refresh_token) THEN [c |-> RefreshReturned(c0, "False"), ret |-> "False"]
    ELSE
    LET c1 == Request(c0, "POST", "/refresh-token",
                      <<"refreshToken", c0.refresh_token>>, r) IN
    IF r.kind = "transport"
    THEN [c |-> RefreshReturned(c1, "ConnectionError"), ret |-> "ConnectionError"]
    ELSE IF r.status \notin {200, 201}
    THEN [c |-> RefreshReturned(c1, "False"), ret |-> "False"]
    ELSE IF ~r.json
    THEN [c |-> RefreshReturned(c1, "False"), ret |-> "False"]
    ELSE
    LET c2 == [c1 EXCEPT !.access_token = r.accessToken] IN
    IF Falsy(c2.access_token)
    THEN [c |-> RefreshReturned(c2, "False"), ret |-> "False"]
    ELSE [c |-> RefreshReturned(
                    Succeeded([c2 EXCEPT !.Authorization = Some(Bearer(c2.access_token))],
                              "refresh", r.accessToken),
                    "True"),
          ret |-> "True"]

-----------------------------------------------------------------------------
(* ProductClient.  _request gives the client afterwards, the exception it  *)
(* raised ("none" when it returned) and the response it returned or that   *)
(* its HTTPError carries.  r1 answers the first request, a the refresh, r2 *)
(* the replay; an answer is used only if the code issues the call.         *)

\* _request as it would be if a 401 on the replay started another round of
\* refresh and replay.
_request_retrying(c, method, url, body, r1, a, r2) ==
    LET c1 == Request(c, method, url, body, r1) IN
    IF r1.kind = "transport"
    THEN [c |-> c1, exc |-> "ConnectionError", resp |-> r1]
    ELSE
    LET rf == IF r1.status = 401 THEN refresh(c1, a) ELSE [c |-> c1, ret |-> "none"]
        c3 == IF rf.ret = "True" THEN Request(rf.c, method, url, body, r2) ELSE rf.c
        again == rf.ret = "True" /\ r2.status = 401
        rf2 == IF again THEN refresh(c3, a) ELSE [c |-> c3, ret |-> rf.ret]
        c5 == IF again /\ rf2.ret = "True"
              THEN Request(rf2.c, method, url, body, r2) ELSE rf2.c
        resp == IF rf.ret = "True" THEN r2 ELSE r1
    IN
    IF rf2.ret = "ConnectionError" \/ resp.kind = "transport"
    THEN [c |-> c5, exc |-> "ConnectionError", resp |-> TransportFailure]
    ELSE IF RaisesHTTPError(resp)
    THEN [c |-> c5, exc |-> "HTTPError", resp |-> resp]
    ELSE [c |-> c5, exc |-> "none", resp |-> resp]

\* _request as it would be if raise_for_status looked at the first response
\* after a replay.
_request_stale_response(c, method, url, body, r1, a, r2) ==
    LET c1 == Request(c, method, url, body, r1) IN
    IF r1.kind = "transport"
    THEN [c |-> c1, exc |-> "ConnectionError", resp |-> r1]
    ELSE
    LET rf == IF r1.status = 401 THEN refresh(c1, a) ELSE [c |-> c1, ret |-> "none"]
        c3 == IF rf.ret = "True" THEN Request(rf.c, method, url, body, r2) ELSE rf.c
    IN
    IF rf.ret = "ConnectionError" \/ (rf.ret = "True" /\ r2.kind = "transport")
    THEN [c |-> c3, exc |-> "ConnectionError", resp |-> TransportFailure]
    ELSE IF RaisesHTTPError(r1)
    THEN [c |-> c3, exc |-> "HTTPError", resp |-> r1]
    ELSE [c |-> c3, exc |-> "none", resp |-> r1]

\* _request as it would be if it refreshed on every error status, not on 401 only.
_request_refresh_on_error(c, method, url, body, r1, a, r2) ==
    LET c1 == Request(c, method, url, body, r1) IN
    IF r1.kind = "transport"
    THEN [c |-> c1, exc |-> "ConnectionError", resp |-> r1]
    ELSE
    LET rf == IF RaisesHTTPError(r1) THEN refresh(c1, a) ELSE [c |-> c1, ret |-> "none"]
        c3 == IF rf.ret = "True" THEN Request(rf.c, method, url, body, r2) ELSE rf.c
        resp == IF rf.ret = "True" THEN r2 ELSE r1
    IN
    IF rf.ret = "ConnectionError" \/ resp.kind = "transport"
    THEN [c |-> c3, exc |-> "ConnectionError", resp |-> TransportFailure]
    ELSE IF RaisesHTTPError(resp)
    THEN [c |-> c3, exc |-> "HTTPError", resp |-> resp]
    ELSE [c |-> c3, exc |-> "none", resp |-> resp]

\* _request as it would be if it tried the first request again after a
\* transport failure.
_request_retry_on_transport(c, method, url, body, r1, a, r2) ==
    LET c1 == Request(c, method, url, body, r1) IN
    IF r1.kind = "transport"
    THEN [c |-> Request(c1, method, url, body, r1),
          exc |-> "ConnectionError", resp |-> r1]
    ELSE
    LET rf == IF r1.status = 401 THEN refresh(c1, a) ELSE [c |-> c1, ret |-> "none"]
        c3 == IF rf.ret = "True" THEN Request(rf.c, method, url, body, r2) ELSE rf.c
        resp == IF rf.ret = "True" THEN r2 ELSE r1
    IN
    IF rf.ret = "ConnectionError" \/ resp.kind = "transport"
    THEN [c |-> c3, exc |-> "ConnectionError", resp |-> TransportFailure]
    ELSE IF RaisesHTTPError(resp)
    THEN [c |-> c3, exc |-> "HTTPError", resp |-> resp]
    ELSE [c |-> c3, exc |-> "none", resp |-> resp]

\* _request as it would be if it dropped the session when the refresh fails.
_request_clears_on_failed_refresh(c, method, url, body, r1, a, r2) ==
    LET c1 == Request(c, method, url, body, r1) IN
    IF r1.kind = "transport"
    THEN [c |-> c1, exc |-> "ConnectionError", resp |-> r1]
    ELSE
    LET rf == IF r1.status = 401 THEN refresh(c1, a) ELSE [c |-> c1, ret |-> "none"]
        c3 == IF rf.ret = "True" THEN Request(rf.c, method, url, body, r2)
              ELSE IF rf.ret = "False"
              THEN [rf.c EXCEPT !.access_token = None, !.refresh_token = None,
                                !.Authorization = None]
              ELSE rf.c
        resp == IF rf.ret = "True" THEN r2 ELSE r1
    IN
    IF rf.ret = "ConnectionError" \/ resp.kind = "transport"
    THEN [c |-> c3, exc |-> "ConnectionError", resp |-> TransportFailure]
    ELSE IF RaisesHTTPError(resp)
    THEN [c |-> c3, exc |-> "HTTPError", resp |-> resp]
    ELSE [c |-> c3, exc |-> "none", resp |-> resp]

\* _request as it would be if it replayed whatever refresh returned.
_request_replays_always(c, method, url, body, r1, a, r2) ==
    LET c1 == Request(c, method, url, body, r1) IN
    IF r1.kind = "transport"
    THEN [c |-> c1, exc |-> "ConnectionError", resp |-> r1]
    ELSE
    LET rf == IF r1.status = 401 THEN refresh(c1, a) ELSE [c |-> c1, ret |-> "none"]
        replay == rf.ret \in {"True", "False"}
        c3 == IF replay THEN Request(rf.c, method, url, body, r2) ELSE rf.c
        resp == IF replay THEN r2 ELSE r1
    IN
    IF rf.ret = "ConnectionError" \/ resp.kind = "transport"
    THEN [c |-> c3, exc |-> "ConnectionError", resp |-> TransportFailure]
    ELSE IF RaisesHTTPError(resp)
    THEN [c |-> c3, exc |-> "HTTPError", resp |-> resp]
    ELSE [c |-> c3, exc |-> "none", resp |-> resp]

_request(c, method, url, body, r1, a, r2) ==
    LET c1 == Request(c, method, url, body, r1) IN
    IF r1.kind = "transport"
    THEN [c |-> c1, exc |-> "ConnectionError", resp |-> r1]
    ELSE
    LET rf == IF r1.status = 401 THEN refresh(c1, a) ELSE [c |-> c1, ret |-> "none"]
        c3 == IF rf.ret = "True" THEN Request(rf.c, method, url, body, r2) ELSE rf.c
        resp == IF rf.ret = "True" THEN r2 ELSE r1
    IN
    IF rf.ret = "ConnectionError" \/ resp.kind = "transport"
    THEN [c |-> c3, exc |-> "ConnectionError", resp |-> TransportFailure]
    ELSE IF RaisesHTTPError(resp)
    THEN [c |-> c3, exc |-> "HTTPError", resp |-> resp]
    ELSE [c |-> c3, exc |-> "none", resp |-> resp]

ProductIds == {"p1"}

\* What a CRUD method gives its caller once _request has returned or raised.
Returned(q, value) ==
    [c |-> q.c, ret |-> IF q.exc = "none" THEN value ELSE q.exc, resp |-> q.resp]

get_products(c, r1, a, r2) ==
    LET q == _request(c, "GET", "/database/{contract}/read",
                      <<"tableName", "Product">>, r1, a, r2) IN
    Returned(q, IF q.resp.json THEN "products" ELSE "ValueError")

add_product(c, product, r1, a, r2) ==
    LET q == _request(c, "POST", "/database/{contract}/insert",
                      <<"Product", "records", <<product>> >>, r1, a, r2) IN
    Returned(q, "True")

update_product(c, product_id, updates, r1, a, r2) ==
    LET q == _request(c, "PUT", "/database/{contract}/update",
                      <<"Product", "_id", product_id, updates>>, r1, a, r2) IN
    Returned(q, "True")

delete_product(c, product_id, r1, a, r2) ==
    LET q == _request(c, "DELETE", "/database/{contract}/delete",
                      <<"Product", "_id", product_id>>, r1, a, r2) IN
    Returned(q, "True")

-----------------------------------------------------------------------------
(* The operations, as the menu loop of main() runs them one at a time.     *)

\* No bulk operation: pc is the position in the method, products and n its
\* inputs, i the loop index, added_names its list, calls the CRUD methods it
\* has called (with argument and outcome), ret what it returned or raised.
NoJob ==
    [op |-> "none", pc |-> "idle", products |-> <<>>, n |-> 0, i |-> 0,
     added_names |-> <<>>, calls |-> <<>>, ret |-> "none"]

\* The callers that share one AuthenticationClient and session.
Callers == {"t1", "t2"}

\* A caller outside _request.  Inside it, pc tells which request it waits
\* for ("first", "refreshing", "replaying"); first is the status of the first
\* response, payload the refresh token its refresh request carries, auth the
\* header its replay carried, exc what _request raised ("none": returned).
NotCalling ==
    [pc |-> "idle", first |-> 0, refreshCalls |-> 0, refreshRet |-> "none",
     payload |-> None, replays |-> 0, auth |-> None, exc |-> "none"]

Init ==
    /\ access_token = None
    /\ refresh_token = None
    /\ Authorization = None
    /\ authEvent = NoEvent
    /\ last = NoOperation
    /\ running = NoJob
    /\ callers = [t \in Callers |-> NotCalling]

Now == Client(access_token, refresh_token, Authorization, authEvent)

\* The effect of one method call on the client, and its record.
Observed(op, q, resp) ==
    /\ access_token' = q.c.access_token
    /\ refresh_token' = q.c.refresh_token
    /\ Authorization' = q.c.Authorization
    /\ authEvent' = q.c.ev
    /\ last' = [op |-> op, ret |-> q.ret, resp |-> resp, sent |-> q.c.sent,
                refreshCalls |-> q.c.refreshCalls, refreshRet |-> q.c.refreshRet]
    /\ callers' = callers

\* One operation of the menu: none starts while a bulk operation runs.
Done(op, q, resp) ==
    /\ running.pc = "idle"
    /\ running' = NoJob
    /\ Observed(op, q, resp)

\* The answers drawn for the k-th network call of an operation that issues n
\* calls: the remote side answers only the calls the code makes.
Answers(S, k, n) == IF k <= n THEN S ELSE {TransportFailure}

Issued(q) == Len(q.c.sent)

Login ==
    \E r \in AuthResponses :
        LET q == login(Now, r) IN Done("login", q, r)

Logout ==
    \E r \in AuthResponses :
        LET q == logout(Now, r) IN Done("logout", q, r)

Refresh ==
    \E r \in Answers(AuthResponses, 1, Issued(refresh(Now, TransportFailure))) :
        Done("refresh", refresh(Now, r), r)

GetProducts ==
    \E r1 \in ResourceResponses :
    \E a \in Answers(AuthResponses, 2,
                     Issued(get_products(Now, r1, TransportFailure, TransportFailure))) :
    \E r2 \in Answers(ResourceResponses, 3,
                      Issued(get_products(Now, r1, a, TransportFailure))) :
        LET q == get_products(Now, r1, a, r2) IN Done("get_products", q, q.resp)

AddProduct ==
    \E r1 \in ResourceResponses :
    \E a \in Answers(AuthResponses, 2,
                     Issued(add_product(Now, "product", r1, TransportFailure,
                                        TransportFailure))) :
    \E r2 \in Answers(ResourceResponses, 3,
                      Issued(add_product(Now, "product", r1, a, TransportFailure))) :
        LET q == add_product(Now, "product", r1, a, r2) IN Done("add_product", q, q.resp)

UpdateProduct ==
    \E p \in ProductIds :
    \E r1 \in ResourceResponses :
    \E a \in Answers(AuthResponses, 2,
                     Issued(update_product(Now, p, "updates", r1, TransportFailure,
                                           TransportFailure))) :
    \E r2 \in Answers(ResourceResponses, 3,
                      Issued(update_product(Now, p, "updates", r1, a, TransportFailure))) :
        LET q == update_product(Now, p, "updates", r1, a, r2)
        IN Done("update_product", q, q.resp)

DeleteProduct ==
    \E p \in ProductIds :
    \E r1 \in ResourceResponses :
    \E a \in Answers(AuthResponses, 2,
                     Issued(delete_product(Now, p, r1, TransportFailure,
                                           TransportFailure))) :
    \E r2 \in Answers(ResourceResponses, 3,
                      Issued(delete_product(Now, p, r1, a, TransportFailure))) :
        LET q == delete_product(Now, p, r1, a, r2)
        IN Done("delete_product", q, q.resp)

-----------------------------------------------------------------------------
(* delete_all_products and add_random_products.  Each CRUD method they     *)
(* call is one step; between the steps of one of them nothing else runs.   *)

Called(job, op, arg, q) ==
    [job EXCEPT !.calls = Append(@, [op |-> op, arg |-> arg, ret |-> q.ret])]

Raised(job, q) == [job EXCEPT !.pc = "idle", !.ret = q.ret]

\* delete_all_products as it would be if it went on after a delete that failed.
delete_all_products_deleted_ignoring_errors(job, pid, q) ==
    [Called(job, "delete_product", pid, q) EXCEPT !.i = @ + 1]

\* products = self.get_products(): an exception of get_products ends the method.
delete_all_products_listed(q) ==
    LET job == Called([NoJob EXCEPT !.op = "delete_all_products"],
                      "get_products", "", q) IN
    IF q.ret = "products"
    THEN [job EXCEPT !.pc = "deleting", !.products = q.resp.records, !.i = 1]
    ELSE Raised(job, q)

\* self.delete_product(pid) in the loop: an exception ends the method.
delete_all_products_deleted(job, pid, q) ==
    LET j == Called(job, "delete_product", pid, q) IN
    IF q.ret = "True" THEN [j EXCEPT !.i = @ + 1] ELSE Raised(j, q)

\* The bulk operations are followed from a session that has just been set up
\* or logged in: running is NoJob.
DeleteAllProducts ==
    /\ running = NoJob
    /\ \E r1 \in ListResponses :
       \E a \in Answers(AuthResponses, 2,
                        Issued(get_products(Now, r1, TransportFailure,
                                            TransportFailure))) :
       \E r2 \in Answers(ListResponses, 3,
                         Issued(get_products(Now, r1, a, TransportFailure))) :
           LET q == get_products(Now, r1, a, r2) IN
           /\ Observed("get_products", q, q.resp)
           /\ running' = delete_all_products_listed(q)

\* One turn of the loop over products: a record without '_id' is passed over.
DeleteNextProduct ==
    /\ running.pc = "deleting"
    /\ running.i <= Len(running.products)
    /\ LET pid == running.products[running.i] IN
       IF Falsy(pid)
       THEN /\ running' = [running EXCEPT !.i = @ + 1]
            /\ UNCHANGED <<access_token, refresh_token, Authorization, authEvent, last,
                         callers>>
       ELSE \E r1 \in ResourceResponses :
            \E a \in Answers(AuthResponses, 2,
                             Issued(delete_product(Now, pid[1], r1, TransportFailure,
                                                   TransportFailure))) :
            \E r2 \in Answers(ResourceResponses, 3,
                              Issued(delete_product(Now, pid[1], r1, a,
                                                    TransportFailure))) :
                LET q == delete_product(Now, pid[1], r1, a, r2) IN
                /\ Observed("delete_product", q, q.resp)
                /\ running' = delete_all_products_deleted(running, pid[1], q)

\* The loop is over: the method prints its message and returns None.
DeleteAllReturns ==
    /\ running.pc = "deleting"
    /\ running.i > Len(running.products)
    /\ running' = [running EXCEPT !.pc = "idle", !.ret = "None"]
    /\ UNCHANGED <<access_token, refresh_token, Authorization, authEvent, last,
                         callers>>

\* The names random.choices can give; the suffix is 8 random characters.
Names == {"Producto-aaaaaaaa", "Producto-bbbbbbbb"}

\* add_random_products as it would be if it caught the exception of an insert
\* and went on to the next one.
add_random_products_added_ignoring_errors(job, name, q) ==
    LET j == Called(job, "add_product", name, q) IN
    [j EXCEPT !.added_names = Append(@, name), !.i = @ + 1]

\* self.add_product(product); added_names.append(name)
add_random_products_added(job, name, q) ==
    LET j == Called(job, "add_product", name, q) IN
    IF q.ret = "True"
    THEN [j EXCEPT !.added_names = Append(@, name), !.i = @ + 1]
    ELSE Raised(j, q)

AddRandomProducts ==
    /\ running = NoJob
    /\ \E n \in 0..MaxCount :
           running' = [NoJob EXCEPT !.op = "add_random_products",
                                    !.pc = "adding", !.n = n]
    /\ UNCHANGED <<access_token, refresh_token, Authorization, authEvent, last,
                         callers>>

\* One turn of the loop over range(n).
AddNextProduct ==
    /\ running.pc = "adding"
    /\ running.i < running.n
    /\ \E name \in Names :
       \E r1 \in ResourceResponses :
       \E a \in Answers(AuthResponses, 2,
                        Issued(add_product(Now, name, r1, TransportFailure,
                                           TransportFailure))) :
       \E r2 \in Answers(ResourceResponses, 3,
                         Issued(add_product(Now, name, r1, a, TransportFailure))) :
           LET q == add_product(Now, name, r1, a, r2) IN
           /\ Observed("add_product", q, q.resp)
           /\ running' = add_random_products_added(running, name, q)

\* The loop is over: the method returns added_names.
AddRandomReturns ==
    /\ running.pc = "adding"
    /\ running.i = running.n
    /\ running' = [running EXCEPT !.pc = "idle", !.ret = "added_names"]
    /\ UNCHANGED <<access_token, refresh_token, Authorization, authEvent, last,
                         callers>>

\* The login of the bulk sessions: answered with a token pair.
LoginWithTokenPair ==
    LET r == Http(200, TRUE, Some("A1"), Some("R1"))
        q == login(Now, r)
    IN Done("login", q, r)

NextDeleteAll ==
    \/ LoginWithTokenPair
    \/ DeleteAllProducts
    \/ DeleteNextProduct
    \/ DeleteAllReturns

\* A session that logs in and runs delete_all_products.
SpecDeleteAll == Init /\ [][NextDeleteAll]_vars

NextAddRandom ==
    \/ LoginWithTokenPair
    \/ AddRandomProducts
    \/ AddNextProduct
    \/ AddRandomReturns

\* A session that logs in and runs add_random_products.
SpecAddRandom == Init /\ [][NextAddRandom]_vars

-----------------------------------------------------------------------------
(* ProductClient._request run by several callers on the same client.  The  *)
(* code holds no lock, so a caller can be overtaken wherever it waits for  *)
(* a response; what it runs between two requests is one step.              *)

Ended(th, exc) == [th EXCEPT !.pc = "done", !.exc = exc]

\* The first response has arrived (lines 108-110 and 67-74): a 401 calls
\* refresh, which sends its request when there is a refresh token.
_request_answered(th, rt, r1) ==
    IF r1.kind = "transport" THEN Ended(th, "ConnectionError")
    ELSE
    LET t1 == [th EXCEPT !.first = r1.status] IN
    IF r1.status = 401
    THEN LET t2 == [t1 EXCEPT !.refreshCalls = @ + 1] IN
         IF Falsy(rt)
         THEN Ended([t2 EXCEPT !.refreshRet = "False"], "HTTPError")
         ELSE [t2 EXCEPT !.pc = "refreshing", !.payload = rt]
    ELSE Ended(t1, IF RaisesHTTPError(r1) THEN "HTTPError" ELSE "none")

\* refresh has returned or raised (lines 110-112): the replay goes out with
\* the session's header only if it returned True.
_request_refreshed(th, q) ==
    LET t1 == [th EXCEPT !.refreshRet = q.ret] IN
    IF q.ret = "True"
    THEN [t1 EXCEPT !.pc = "replaying", !.replays = @ + 1,
                    !.auth = q.c.Authorization]
    ELSE Ended(t1, IF q.ret = "ConnectionError" THEN "ConnectionError"
                   ELSE "HTTPError")

\* The end of _request as it would be if a 401 on the replay called refresh
\* again.
_request_replayed_retrying(th, rt, r2) ==
    IF r2.kind = "transport" THEN Ended(th, "ConnectionError")
    ELSE IF r2.status = 401 /\ ~Falsy(rt)
    THEN [th EXCEPT !.pc = "refreshing", !.refreshCalls = @ + 1, !.payload = rt]
    ELSE Ended(th, IF RaisesHTTPError(r2) THEN "HTTPError" ELSE "none")

\* The replay's response has arrived (lines 113-118).
_request_replayed(th, rt, r2) ==
    IF r2.kind = "transport" THEN Ended(th, "ConnectionError")
    ELSE Ended(th, IF RaisesHTTPError(r2) THEN "HTTPError" ELSE "none")

Log == <<last, running>>

\* A caller enters _request and sends the first request.
Call(t) ==
    /\ callers[t].pc \in {"idle", "done"}
    /\ callers' = [callers EXCEPT ![t] = [NotCalling EXCEPT !.pc = "first"]]
    /\ UNCHANGED <<Creds, authEvent, Log>>

RecvFirst(t) ==
    /\ callers[t].pc = "first"
    /\ \E r1 \in ResourceResponses :
           callers' = [callers EXCEPT
                           ![t] = _request_answered(@, refresh_token, r1)]
    /\ UNCHANGED <<Creds, authEvent, Log>>

\* The refresh request of caller t is answered: the rest of refresh runs on
\* the client as it is now.
RecvRefresh(t) ==
    /\ callers[t].pc = "refreshing"
    /\ \E a \in AuthResponses :
           LET q == refresh(Client(access_token, callers[t].payload,
                                   Authorization, authEvent), a)
           IN /\ access_token' = q.c.access_token
              /\ Authorization' = q.c.Authorization
              /\ authEvent' = q.c.ev
              /\ callers' = [callers EXCEPT ![t] = _request_refreshed(@, q)]
    /\ UNCHANGED <<refresh_token, Log>>

RecvReplay(t) ==
    /\ callers[t].pc = "replaying"
    /\ \E r2 \in ResourceResponses :
           callers' = [callers EXCEPT
                           ![t] = _request_replayed(@, refresh_token, r2)]
    /\ UNCHANGED <<Creds, authEvent, Log>>

NextConcurrent ==
    \/ LoginWithTokenPair
    \/ \E t \in Callers : Call(t)
    \/ \E t \in Callers : RecvFirst(t)
    \/ \E t \in Callers : RecvRefresh(t)
    \/ \E t \in Callers : RecvReplay(t)

SpecConcurrent == Init /\ [][NextConcurrent]_vars

Next ==
    \/ Login
    \/ Logout
    \/ Refresh
    \/ GetProducts
    \/ AddProduct
    \/ UpdateProduct
    \/ DeleteProduct

Spec == Init /\ [][Next]_vars

-----------------------------------------------------------------------------
(* Observations on the operation just performed.                           *)

CrudOps == {"get_products", "add_product", "update_product", "delete_product"}

IsCrud == last.op \in CrudOps

\* The calls of the operation that went to the refresh endpoint, and to a data
\* endpoint.
RefreshRequests == {i \in DOMAIN last.sent : last.sent[i].url = "/refresh-token"}

ResourceRequests == {i \in DOMAIN last.sent : last.sent[i].url /= "/refresh-token"}

FirstWas401 == Len(last.sent) >= 1 /\ last.sent[1].resp.status = 401

\* A CRUD call whose first answer was 401 and whose refresh returned True.
Refreshed == IsCrud /\ FirstWas401 /\ last.refreshRet = "True"

-----------------------------------------------------------------------------
\* C1: in one call of _request, refresh is invoked at most once and the request
\* is re-issued at most once; a first 401 followed by a failed refresh is not
\* replayed and not refreshed again; a replay answered 401 is followed by no
\* further refresh or replay.
C1_AtMostOneRefreshAndReplay ==
    IsCrud =>
        /\ last.refreshCalls <= 1
        /\ Cardinality(RefreshRequests) <= 1
        /\ Cardinality(ResourceRequests) <= 2
        /\ (FirstWas401 /\ last.refreshRet /= "True" =>
                /\ last.refreshCalls = 1
                /\ Cardinality(ResourceRequests) = 1)
        /\ (Refreshed =>
                /\ last.refreshCalls = 1
                /\ Len(last.sent) = 3
                /\ ResourceRequests = {1, 3}
                /\ RefreshRequests = {2})

\* A CRUD call answered 401, refreshed, and answered 401 again on the replay.
C1_Witness ==
    /\ Refreshed
    /\ Len(last.sent) = 3
    /\ last.sent[3].resp.status = 401
    /\ last.ret = "HTTPError"

-----------------------------------------------------------------------------
\* C2: when the first answer of a CRUD call is 401 and the refresh succeeds
\* with a new access token, the same method, URL and body are re-issued exactly
\* once, the replay carries 'Bearer <new token>', the caller gets the replayed
\* response, and the refresh token held afterwards is the one held before.
C2_ReplayCarriesNewToken ==
    [][ Refreshed' =>
          /\ Len(last'.sent) = 3
          /\ last'.sent[3].method = last'.sent[1].method
          /\ last'.sent[3].url = last'.sent[1].url
          /\ last'.sent[3].body = last'.sent[1].body
          /\ last'.sent[2].resp.accessToken /= None
          /\ last'.sent[3].auth =
                 Some("Bearer " \o last'.sent[2].resp.accessToken[1])
          /\ last'.resp = last'.sent[3].resp
          /\ (last'.ret = "HTTPError") = RaisesHTTPError(last'.sent[3].resp)
          /\ (last'.ret = "ConnectionError") = (last'.sent[3].resp.kind = "transport")
          /\ refresh_token' = refresh_token ]_vars

\* A list answered 401 under token A1, refreshed to A2, replayed and answered 200.
C2_Witness ==
    /\ Refreshed
    /\ last.op = "get_products"
    /\ last.sent[1].auth = Some("Bearer A1")
    /\ last.sent[2].resp.accessToken = Some("A2")
    /\ last.sent[3].auth = Some("Bearer A2")
    /\ last.ret = "products"
    /\ refresh_token = Some("R1")

\* C3: between operations, an access token is held iff the session carries the
\* header 'Bearer <that token>'; with no access token there is no header.
C3_HeaderMatchesToken ==
    /\ access_token /= None => Authorization = Some("Bearer " \o access_token[1])
    /\ access_token = None => Authorization = None

\* C4: every call sent through the session after a successful login or refresh,
\* up to the next successful login, refresh or logout, carries
\* 'Bearer <the access token that success returned>'.
C4_CallsCarryLatestToken ==
    \A i \in DOMAIN last.sent :
        LET e == last.sent[i] IN
        e.ev.kind \in {"login", "refresh"} /\ e.ev.token /= None =>
            e.auth = Some("Bearer " \o e.ev.token[1])

\* A CRUD call sent under the token of a login, refreshed in the same call to
\* another token, and replayed.
C4_Witness ==
    /\ Refreshed
    /\ Len(last.sent) = 3
    /\ last.sent[1].ev.kind = "login"
    /\ last.sent[1].ev.token /= None
    /\ last.sent[3].ev.kind = "refresh"
    /\ last.sent[3].ev.token /= last.sent[1].ev.token

\* C5 as stated: after a successful logout, and after a refresh attempt that
\* fails, no call carries an Authorization header until the next successful
\* login.
C5_NoHeaderAfterLogoutOrFailedRefresh ==
    \A i \in DOMAIN last.sent :
        LET e == last.sent[i] IN
        e.ev.kind = "logout" \/ e.ev.refreshFailed => e.auth = None

\* C5 as amended: after a successful logout no call carries an Authorization
\* header until the next successful login; a refresh that fails leaves the
\* session's Authorization header as it was.
C5_NoHeaderAfterLogout ==
    [][ /\ \A i \in DOMAIN last'.sent :
               last'.sent[i].ev.kind = "logout" => last'.sent[i].auth = None
        /\ (last'.refreshCalls >= 1 /\ last'.refreshRet /= "True" =>
               Authorization' = Authorization) ]_vars

\* A CRUD call made after a logout that followed a login with a token.
C5_Witness ==
    /\ IsCrud
    /\ last.sent[1].ev.kind = "logout"
    /\ last.sent[1].auth = None

\* C6: whenever refresh returns failure, the access token, the refresh token
\* and the Authorization header are what they were before the call.
C6_FailedRefreshChangesNothing ==
    [][ last'.refreshCalls >= 1 /\ last'.refreshRet = "False" =>
          UNCHANGED Creds ]_vars

\* C7: a successful refresh changes only the access token and the matching
\* header; the refresh token stays, whatever the body of the answer carries.
C7_RefreshKeepsRefreshToken ==
    [][ last'.refreshCalls >= 1 /\ last'.refreshRet = "True" =>
          /\ refresh_token' = refresh_token
          /\ access_token' /= None
          /\ Authorization' = Some("Bearer " \o access_token'[1]) ]_vars

\* A refresh that succeeded on an answer carrying another refreshToken.
C7_Witness ==
    /\ last.op = "refresh"
    /\ last.ret = "True"
    /\ last.resp.refreshToken /= None
    /\ last.resp.refreshToken /= refresh_token

\* C8: a login answered 2xx with a body that lacks accessToken returns failure
\* and leaves the tokens and the header unchanged.
C8_LoginWithoutTokenFails ==
    [][ /\ last'.op = "login"
        /\ last'.resp.kind = "http"
        /\ ~RaisesHTTPError(last'.resp)
        /\ last'.resp.json
        /\ last'.resp.accessToken = None
        => last'.ret = "False" /\ UNCHANGED Creds ]_vars

\* C9: whenever login returns failure, the tokens and the header are the same
\* before and after the call.
C9_FailedLoginChangesNothing ==
    [][ last'.op = "login" /\ last'.ret /= "True" => UNCHANGED Creds ]_vars

\* A login that returned False while a token pair was held.
C9_Witness ==
    /\ last.op = "login"
    /\ last.ret = "False"
    /\ access_token \in {Some(t) : t \in AccessTokens}
    /\ refresh_token \in {Some(t) : t \in RefreshTokens}
    /\ Authorization /= None

\* C10: a CRUD call surfaces a 401 only if in that call a refresh was attempted
\* and either failed or was followed by a replay also answered 401; when the
\* refresh and the replay succeed the caller gets a success.
C10_Raw401OnlyAfterRetry ==
    IsCrud =>
        /\ (last.ret = "HTTPError" /\ last.resp.status = 401 =>
                /\ last.refreshCalls = 1
                /\ \/ last.refreshRet = "False"
                   \/ /\ last.refreshRet = "True"
                      /\ Len(last.sent) = 3
                      /\ last.sent[3].resp.status = 401)
        /\ (Refreshed /\ Len(last.sent) = 3
              /\ last.sent[3].resp.kind = "http"
              /\ ~RaisesHTTPError(last.sent[3].resp) =>
                /\ last.ret \notin {"HTTPError", "ConnectionError"}
                /\ last.resp = last.sent[3].resp
                /\ last.op /= "get_products" => last.ret = "True"
                /\ last.op = "get_products" /\ last.resp.json => last.ret = "products")

\* A CRUD call answered 401, refreshed, replayed and answered 200.
C10_Witness ==
    /\ Refreshed
    /\ Len(last.sent) = 3
    /\ last.sent[3].resp.status = 200
    /\ last.ret = "True"

-----------------------------------------------------------------------------
\* C11: when the first answer of a CRUD call is an error status other than 401
\* (another 4xx, or a 5xx), the failure is surfaced without a refresh, without
\* a second request, and with the tokens and the header unchanged.
C11_OtherErrorsSurfaceAtOnce ==
    [][ /\ IsCrud'
        /\ last'.sent[1].resp.kind = "http"
        /\ RaisesHTTPError(last'.sent[1].resp)
        /\ last'.sent[1].resp.status /= 401
        => /\ last'.refreshCalls = 0
           /\ Len(last'.sent) = 1
           /\ last'.ret = "HTTPError"
           /\ last'.resp = last'.sent[1].resp
           /\ UNCHANGED Creds ]_vars

\* A CRUD call answered 500 while a token pair with its header is held.
C11_Witness ==
    /\ IsCrud
    /\ last.sent[1].resp.status = 500
    /\ last.sent[1].auth = Some("Bearer A1")
    /\ last.ret = "HTTPError"
    /\ refresh_token /= None

\* C12: with no refresh token held, refresh returns failure without a network
\* request and without changing the access token or the header.
C12_RefreshWithoutTokenIsLocal ==
    [][ last'.refreshCalls >= 1 /\ refresh_token = None =>
          /\ last'.refreshRet = "False"
          /\ RefreshRequests' = {}
          /\ (last'.op = "refresh" => last'.ret = "False" /\ last'.sent = <<>>)
          /\ UNCHANGED Creds ]_vars

\* A refresh called while an access token is held without a refresh token.
C12_Witness ==
    /\ last.op = "refresh"
    /\ last.ret = "False"
    /\ last.sent = <<>>
    /\ refresh_token = None
    /\ access_token = Some("A1")
    /\ Authorization = Some("Bearer A1")

-----------------------------------------------------------------------------
\* C13 as stated: a logout answered 2xx clears both tokens and removes the
\* header; a logout answered with any other status returns failure and leaves
\* the tokens and the header unchanged; the logout request is sent with the
\* credentials held before it.
C13_LogoutClearsOn2xxOnly ==
    [][ last'.op = "logout" /\ last'.resp.kind = "http" =>
          /\ last'.sent[1].auth = Authorization
          /\ IF last'.resp.status \in 200..299
             THEN /\ last'.ret = "True"
                  /\ access_token' = None
                  /\ refresh_token' = None
                  /\ Authorization' = None
             ELSE last'.ret = "False" /\ UNCHANGED Creds ]_vars

\* C13 as amended: a logout answered with a status that is no error (below
\* 400: 2xx, and a 3xx such as 304) clears both tokens and removes the header;
\* a logout answered 4xx or 5xx returns failure and leaves the tokens and the
\* header unchanged; the logout request, a retry included, is sent with the
\* credentials held before it.
C13_LogoutClearsUnlessError ==
    [][ last'.op = "logout" /\ last'.resp.kind = "http" =>
          /\ last'.sent[1].auth = Authorization
          /\ IF last'.resp.status < 400
             THEN /\ last'.ret = "True"
                  /\ access_token' = None
                  /\ refresh_token' = None
                  /\ Authorization' = None
             ELSE last'.ret = "False" /\ UNCHANGED Creds ]_vars

\* A logout answered 500 while a token pair with its header is held.
C13_Witness ==
    /\ last.op = "logout"
    /\ last.ret = "False"
    /\ last.resp.status = 500
    /\ last.sent[1].auth = Some("Bearer A1")
    /\ access_token = Some("A1")
    /\ refresh_token = Some("R1")
    /\ Authorization = Some("Bearer A1")

-----------------------------------------------------------------------------
\* C14: a transport failure at any step of a CRUD call (first request, refresh
\* or replay) is surfaced to the caller and followed by no other call; a
\* transport failure of the first request starts neither refresh nor replay.
C14_TransportFailureEndsTheCall ==
    IsCrud =>
        /\ \A i \in DOMAIN last.sent :
               last.sent[i].resp.kind = "transport" =>
                   i = Len(last.sent) /\ last.ret = "ConnectionError"
        /\ (Len(last.sent) >= 1 /\ last.sent[1].resp.kind = "transport" =>
               last.refreshCalls = 0 /\ Len(last.sent) = 1)

\* A CRUD call answered 401 and refreshed, whose replay did not complete.
C14_Witness ==
    /\ Refreshed
    /\ Len(last.sent) = 3
    /\ last.sent[3].resp.kind = "transport"
    /\ last.ret = "ConnectionError"

-----------------------------------------------------------------------------
\* C17: a session that holds no access token comes to hold one only by a
\* successful login; a successful refresh happens only while an access token
\* is held and never gives an access token to a session that holds none.
C17_OnlyLoginAuthenticates ==
    [][ /\ (access_token = None /\ access_token' /= None =>
               last'.op = "login" /\ last'.ret = "True")
        /\ (last'.refreshCalls >= 1 /\ last'.refreshRet = "True" =>
               access_token /= None) ]_vars

-----------------------------------------------------------------------------
\* C18: a CRUD operation whose first answer is not 401 leaves the tokens and
\* the header unchanged; one whose first answer is 401 changes them only as
\* its single call of refresh does; no CRUD operation changes the refresh
\* token.
C18_CrudChangesCredsOnlyByRefresh ==
    [][ IsCrud' =>
          /\ refresh_token' = refresh_token
          /\ (~FirstWas401' => last'.refreshCalls = 0 /\ UNCHANGED Creds)
          /\ (FirstWas401' =>
                LET a == IF RefreshRequests' = {} THEN TransportFailure
                         ELSE last'.sent[2].resp
                    q == refresh(Now, a)
                IN /\ last'.refreshCalls = 1
                   /\ last'.refreshRet = q.ret
                   /\ access_token' = q.c.access_token
                   /\ refresh_token' = q.c.refresh_token
                   /\ Authorization' = q.c.Authorization) ]_vars

\* A CRUD call answered 401 whose refresh replaced the token and the header.
C18_Witness ==
    /\ Refreshed
    /\ last.sent[1].auth = Some("Bearer A1")
    /\ access_token = Some("A2")
    /\ Authorization = Some("Bearer A2")

-----------------------------------------------------------------------------
\* C19: with no refresh token held, a CRUD call answered 401 sends one
\* resource request, no refresh request and no replay, and surfaces the 401.
C19_No401RecoveryWithoutRefreshToken ==
    [][ IsCrud' /\ FirstWas401' /\ refresh_token = None =>
          /\ Len(last'.sent) = 1
          /\ RefreshRequests' = {}
          /\ last'.ret = "HTTPError"
          /\ last'.resp.status = 401
          /\ last'.resp = last'.sent[1].resp ]_vars

\* A CRUD call answered 401 after a logout.
C19_Witness ==
    /\ IsCrud
    /\ FirstWas401
    /\ last.sent[1].ev.kind = "logout"
    /\ refresh_token = None
    /\ last.ret = "HTTPError"

-----------------------------------------------------------------------------
(* Observations on the bulk operation that runs or has just ended.         *)

HasId(p) == ~Falsy(p)

\* The identifiers of the listed records, in listed order.
IdsListed == SelectSeq(running.products, HasId)

CallSucceeded(call) == call.ret \in {"products", "True"}

LastCallFailed ==
    /\ running.calls /= <<>>
    /\ ~CallSucceeded(running.calls[Len(running.calls)])

\* C15: delete_all_products lists, then deletes in listed order, one delete
\* per listed identifier; when every delete succeeds it issues exactly as many
\* deletes as identifiers were listed and returns; when a delete fails it
\* stops there with that failure, issues no delete for the records that
\* remain, and calls nothing that would undo the deletes done.
C15_DeleteAllInListedOrder ==
    running.op = "delete_all_products" =>
        LET calls == running.calls IN
        /\ calls /= <<>>
        /\ calls[1].op = "get_products"
        /\ \A k \in 2..Len(calls) :
               /\ calls[k].op = "delete_product"
               /\ k - 1 <= Len(IdsListed)
               /\ calls[k].arg = IdsListed[k - 1][1]
        /\ \A k \in 1..(Len(calls) - 1) : CallSucceeded(calls[k])
        /\ (running.ret = "None" =>
               /\ Len(calls) = 1 + Len(IdsListed)
               /\ ~LastCallFailed)
        /\ (LastCallFailed =>
               /\ running.pc = "idle"
               /\ running.ret = calls[Len(calls)].ret
               /\ running.ret /= "None")
        /\ (running.pc = "idle" => running.ret /= "none")

\* Two records listed, the first delete failed: the second was never issued.
C15_Witness ==
    /\ running.op = "delete_all_products"
    /\ running.products = <<Some("p2"), Some("p1")>>
    /\ Len(running.calls) = 2
    /\ running.calls[2].arg = "p2"
    /\ running.calls[2].ret = "HTTPError"
    /\ running.pc = "idle"

-----------------------------------------------------------------------------
\* C16: add_random_products(n) inserts one record per insert, in sequence;
\* when every insert succeeds it issues n inserts and returns n names, those
\* inserted; when an insert fails the operation ends with that failure, no
\* further insert is issued and no list of names is returned.
C16_AddRandomAllOrAbort ==
    running.op = "add_random_products" =>
        LET calls == running.calls IN
        /\ Len(calls) <= running.n
        /\ \A k \in 1..Len(calls) : calls[k].op = "add_product"
        /\ \A k \in 1..(Len(calls) - 1) : CallSucceeded(calls[k])
        /\ Len(running.added_names) = Cardinality({k \in 1..Len(calls) :
                                                      CallSucceeded(calls[k])})
        /\ \A k \in 1..Len(running.added_names) :
               running.added_names[k] = calls[k].arg
        /\ (running.ret = "added_names" =>
               /\ Len(calls) = running.n
               /\ Len(running.added_names) = running.n
               /\ ~LastCallFailed)
        /\ (LastCallFailed =>
               /\ running.pc = "idle"
               /\ running.ret = calls[Len(calls)].ret
               /\ running.ret /= "added_names")
        /\ (running.pc = "idle" => running.ret /= "none")

\* add_random_products(2) whose first insert failed: one insert was issued.
C16_Witness ==
    /\ running.op = "add_random_products"
    /\ running.n = 2
    /\ Len(running.calls) = 1
    /\ running.calls[1].ret = "HTTPError"
    /\ running.pc = "idle"
    /\ running.added_names = <<>>

-----------------------------------------------------------------------------
(* Callers sharing the client.                                              *)

Refreshing == {t \in Callers : callers[t].pc = "refreshing"}

\* C20 as stated: when two callers run CRUD calls concurrently on the same
\* client and both receive 401, the refreshes are serialized: at most one
\* refresh request is in flight at any time.
C20_RefreshesSerialized == Cardinality(Refreshing) <= 1

\* C20, amended: nothing serializes the callers, each one that receives 401
\* calls refresh itself; within one call a caller calls refresh at most once,
\* only after a 401 on its first request, and replays at most once, only
\* after its own refresh returned True.
C20_EachCallerRefreshesOnce ==
    \A t \in Callers :
        LET th == callers[t] IN
        /\ th.refreshCalls <= 1
        /\ th.replays <= 1
        /\ (th.refreshCalls = 1 => th.first = 401)
        /\ (th.pc = "refreshing" => th.refreshCalls = 1 /\ th.replays = 0)
        /\ (th.replays = 1 => th.refreshCalls = 1 /\ th.refreshRet = "True")
        /\ (th.pc = "replaying" => th.replays = 1)

\* Both callers received 401 and both have their refresh request in flight.
C20_Witness ==
    /\ Refreshing = Callers
    /\ \A t \in Callers : callers[t].first = 401 /\ ~Falsy(callers[t].payload)

====
